---- MODULE Spec2Model ----
(***************************************************************************)
(* Model of the chess board core of erkanarslan/chess (src/src/board.ts):  *)
(* Position, Piece (Pawn, Rook, Knight, Bishop, Queen, King) and Board,    *)
(* with the JavaScript semantics of the array accesses the code performs.  *)
(***************************************************************************)
EXTENDS Integers, Sequences, FiniteSets, TLC

VARIABLES
    grid,    \* Board.grid: grid[row][column], a cell of every row array
    epoch,   \* number of Board.initialize() calls so far (entity generation)
    pre,     \* the grid as it was when the last operation was called
    last,    \* the last operation: its name, arguments, outcome and result
    moves    \* number of movePiece calls made so far

vars == <<grid, epoch, pre, last, moves>>

----------------------------------------------------------------------------
(* Bounds of the model.                                                    *)

\* movePiece calls explored under Spec
MaxMoves == 2
\* initialize() calls explored after construction
MaxInits == 1
\* how far outside [0,7] an index given by a caller may lie
OffBy == 1
\* movePiece calls explored under SpecPlay
MaxPlies == 5
\* distance, in steps, between the pieces of the boards drawn under SpecScan
MaxDist == 3

----------------------------------------------------------------------------
(* Constants of board.ts.                                                  *)

COLUMNS == <<"a", "b", "c", "d", "e", "f", "g", "h">>
ROWS == <<8, 7, 6, 5, 4, 3, 2, 1>>

BLACK_PIECE_ROW == 0
BLACK_PAWN_ROW == 1
WHITE_PAWN_ROW == 6
WHITE_PIECE_ROW == 7

\* Variant: queen and king exchanged.
pieceOrderKingQueen == <<"rook", "knight", "bishop", "king", "queen", "bishop", "knight", "rook">>
pieceOrder == <<"rook", "knight", "bishop", "queen", "king", "bishop", "knight", "rook">>

\* A cell of a row array holds null, a Piece, or (an index never written) undefined.
NULL == 0
UNDEF == -1
\* Number(x) of something that is no number; NaN is equal to nothing.
NaN == -2

\* Indices of a row array the model stores: the 8 columns, and the indices
\* next to them that a write with an out-of-range column creates.
BoardIdx == 0..7
StoredIdx == (0 - OffBy)..(7 + OffBy)

\* Piece entities: initialize() number e creates entities 32(e-1)+1 .. 32e,
\* in the order of its createPiece calls.
PiecesPerInit == 32
Slot(piece) == ((piece - 1) % PiecesPerInit) + 1
EntitiesOf(e) == (PiecesPerInit * (e - 1) + 1)..(PiecesPerInit * e)

\* Piece.color and Piece.type, fixed by the constructor.
ColorOf(piece) == IF Slot(piece) % 2 = 1 THEN "black" ELSE "white"
TypeOf(piece) ==
    IF Slot(piece) <= 16 THEN "pawn" ELSE pieceOrder[((Slot(piece) - 17) \div 2) + 1]

----------------------------------------------------------------------------
(* Position.                                                               *)

Position(row, column) == [row |-> row, column |-> column]

\* Array.prototype.indexOf: 0-based index of the first element equal to x, or -1.
IndexOf(seq, x) ==
    IF \E i \in 1..Len(seq) : seq[i] = x
    THEN (CHOOSE i \in 1..Len(seq) : seq[i] = x /\ \A j \in 1..(i - 1) : seq[j] # x) - 1
    ELSE -1

\* s[i] for a string s given as the sequence of its characters: "" stands for undefined.
CharAt(s, i) == IF i + 1 \in 1..Len(s) THEN s[i + 1] ELSE ""

Digits == <<"0", "1", "2", "3", "4", "5", "6", "7", "8", "9">>

\* Number(c) for a single character (or undefined): a digit gives its value,
\* white space gives 0, anything else NaN.
Number(c) ==
    IF IndexOf(Digits, c) >= 0 THEN IndexOf(Digits, c)
    ELSE IF c = " " THEN 0
    ELSE NaN

fromString(position) ==
    LET column == IndexOf(COLUMNS, CharAt(position, 0))
        row == IndexOf(ROWS, Number(CharAt(position, 1)))
    IN Position(row, column)

\* `${x}` of undefined
Undefined == <<"u", "n", "d", "e", "f", "i", "n", "e", "d">>

\* `${COLUMNS[i]}` and `${ROWS[i]}`: the element as a string, "undefined" for
\* an index outside the array.
ColumnString(i) == IF i \in 0..7 THEN <<COLUMNS[i + 1]>> ELSE Undefined
RowString(i) == IF i \in 0..7 THEN <<Digits[ROWS[i + 1] + 1]>> ELSE Undefined

\* Variant: the row index printed as a rank counted from row 0.
toStringRowIndex(p) == ColumnString(p.column) \o RowString(7 - p.row)

toString(p) == ColumnString(p.column) \o RowString(p.row)

addOffset(p, rowOffset, columnOffset) ==
    Position(p.row + rowOffset, p.column + columnOffset)

isOnBoard(p) ==
    p.row >= 0 /\ p.row <= 7 /\ p.column >= 0 /\ p.column <= 7

----------------------------------------------------------------------------
(* Board.                                                                  *)

\* Array(8).fill(null).map(() => Array(8).fill(null)): the grid with no piece.
EmptyGrid == [r \in BoardIdx |-> [c \in StoredIdx |-> IF c \in BoardIdx THEN NULL ELSE UNDEF]]

\* The value of this.grid after initialize() number e.
initialize(e) ==
    [r \in BoardIdx |->
        [c \in StoredIdx |->
            IF c \notin BoardIdx THEN UNDEF
            ELSE IF r = BLACK_PAWN_ROW THEN PiecesPerInit * (e - 1) + 2 * c + 1
            ELSE IF r = WHITE_PAWN_ROW THEN PiecesPerInit * (e - 1) + 2 * c + 2
            ELSE IF r = BLACK_PIECE_ROW THEN PiecesPerInit * (e - 1) + 16 + 2 * c + 1
            ELSE IF r = WHITE_PIECE_ROW THEN PiecesPerInit * (e - 1) + 16 + 2 * c + 2
            ELSE NULL]]

\* The read this.grid[row][column]: a row outside the array is undefined, and
\* reading a property of undefined throws a TypeError; an index of a row array
\* that was never written reads as undefined.
ReadCell(g, row, column) ==
    IF row \notin BoardIdx THEN [out |-> "TypeError", cell |-> UNDEF]
    ELSE IF column \notin StoredIdx THEN [out |-> "ok", cell |-> UNDEF]
    ELSE [out |-> "ok", cell |-> g[row][column]]

\* Board.getPieceAt for a Position.
getPieceAt(g, position) == ReadCell(g, position.row, position.column)

\* Piece.getPosition: rows in order, and in a row the first index holding the piece.
\* for..of and indexOf visit indices 0 .. length-1 only, never a negative index.
ScanIdx == 0..(7 + OffBy)
RowsHolding(g, piece) == {r \in BoardIdx : \E c \in ScanIdx : g[r][c] = piece}
IndicesHolding(g, r, piece) == {c \in ScanIdx : g[r][c] = piece}
Least(S) == CHOOSE x \in S : \A y \in S : x <= y
\* Variant: cells compared by type and colour instead of by identity.
SameKind(cell, piece) ==
    cell > 0 /\ TypeOf(cell) = TypeOf(piece) /\ ColorOf(cell) = ColorOf(piece)
getPositionByValue(g, piece) ==
    LET rows == {r \in BoardIdx : \E c \in ScanIdx : SameKind(g[r][c], piece)} IN
    IF rows # {}
    THEN LET rowIndex == Least(rows)
             columnIndex == Least({c \in ScanIdx : SameKind(g[rowIndex][c], piece)})
         IN [out |-> "ok", pos |-> Position(rowIndex, columnIndex)]
    ELSE [out |-> "PieceNotFound", pos |-> Position(-1, -1)]

getPosition(g, piece) ==
    LET rows == RowsHolding(g, piece) IN
    IF rows # {}
    THEN LET rowIndex == Least(rows)
             columnIndex == Least(IndicesHolding(g, rowIndex, piece))
         IN [out |-> "ok", pos |-> Position(rowIndex, columnIndex)]
    ELSE [out |-> "PieceNotFound", pos |-> Position(-1, -1)]

\* movePiece with lines 81 and 82 in the other order, the position looked up in
\* between: the piece is stored first and the first cell holding it is cleared.
movePieceStoresFirst(g, piece, position) ==
    IF getPosition(g, piece).out # "ok" THEN [out |-> getPosition(g, piece).out, grid |-> g]
    ELSE IF position.row \notin BoardIdx THEN [out |-> "TypeError", grid |-> g]
    ELSE LET g1 == [g EXCEPT ![position.row][position.column] = piece]
             cur == getPosition(g1, piece)
         IN [out |-> "ok", grid |-> [g1 EXCEPT ![cur.pos.row][cur.pos.column] = NULL]]

\* movePiece without line 81: the origin cell is not cleared.
movePieceKeepsOrigin(g, piece, position) ==
    LET cur == getPosition(g, piece) IN
    IF cur.out # "ok" THEN [out |-> cur.out, grid |-> g]
    ELSE IF position.row \notin BoardIdx THEN [out |-> "TypeError", grid |-> g]
    ELSE [out |-> "ok", grid |-> [g EXCEPT ![position.row][position.column] = piece]]

\* Variant: a move onto a square that holds a king is refused.
movePieceSparesKing(g, piece, position) ==
    LET cur == getPosition(g, piece) IN
    IF cur.out # "ok" THEN [out |-> cur.out, grid |-> g]
    ELSE IF /\ position.row \in BoardIdx /\ position.column \in BoardIdx
            /\ g[position.row][position.column] # NULL
            /\ TypeOf(g[position.row][position.column]) = "king"
         THEN [out |-> "KingCapture", grid |-> g]
    ELSE LET g1 == [g EXCEPT ![cur.pos.row][cur.pos.column] = NULL] IN
         IF position.row \notin BoardIdx THEN [out |-> "TypeError", grid |-> g1]
         ELSE [out |-> "ok",
               grid |-> [g1 EXCEPT ![position.row][position.column] = piece]]

\* Board.movePiece once the destination is a Position: the origin is cleared
\* before the destination row is dereferenced.
movePiece(g, piece, position) ==
    LET cur == getPosition(g, piece) IN
    IF cur.out # "ok" THEN [out |-> cur.out, grid |-> g]
    ELSE LET g1 == [g EXCEPT ![cur.pos.row][cur.pos.column] = NULL] IN
         IF position.row \notin BoardIdx THEN [out |-> "TypeError", grid |-> g1]
         ELSE [out |-> "ok",
               grid |-> [g1 EXCEPT ![position.row][position.column] = piece]]

----------------------------------------------------------------------------
(* Piece: move generation.                                                 *)

\* otherPiece is a Piece (truthy), not null or undefined.
IsPiece(cell) == cell # NULL /\ cell # UNDEF

\* Variant: the colour of the occupant is not compared.
OtherColorDiffersAlways(cell, piece) == TRUE

\* otherPiece?.color !== this.color
OtherColorDiffers(cell, piece) == ~IsPiece(cell) \/ ColorOf(cell) # ColorOf(piece)

\* The while loop without line 139: the scan goes on past an occupied square.
RECURSIVE ScanDirectionJumps(_, _, _, _, _, _)
ScanDirectionJumps(g, piece, sq, rowOffset, columnOffset, loop) ==
    LET nextSquare == addOffset(sq, rowOffset, columnOffset) IN
    IF ~isOnBoard(nextSquare) THEN <<>>
    ELSE LET otherPiece == getPieceAt(g, nextSquare).cell
             pushed == IF OtherColorDiffers(otherPiece, piece) THEN <<nextSquare>> ELSE <<>>
         IN IF ~loop
            THEN pushed
            ELSE pushed \o ScanDirectionJumps(g, piece, nextSquare, rowOffset, columnOffset, loop)

\* The while loop of getAvaiableSquaresInDirections for one direction, entered
\* with nextSquare = sq: the squares it pushes, in order.
RECURSIVE ScanDirection(_, _, _, _, _, _)
ScanDirection(g, piece, sq, rowOffset, columnOffset, loop) ==
    LET nextSquare == addOffset(sq, rowOffset, columnOffset) IN
    IF ~isOnBoard(nextSquare) THEN <<>>
    ELSE LET otherPiece == getPieceAt(g, nextSquare).cell
             pushed == IF OtherColorDiffers(otherPiece, piece) THEN <<nextSquare>> ELSE <<>>
         IN IF IsPiece(otherPiece) \/ ~loop \/ otherPiece # NULL
            THEN pushed
            ELSE pushed \o ScanDirection(g, piece, nextSquare, rowOffset, columnOffset, loop)

\* The for loop over the directions.  Line 123 calls getPosition at every
\* direction; the scan writes nothing, so every call returns the same position,
\* given here as position.
\* Variant: the squares of a direction are put in front of the list.
RECURSIVE ScanDirectionsUnshift(_, _, _, _, _)
ScanDirectionsUnshift(g, piece, position, directions, loop) ==
    IF directions = <<>> THEN <<>>
    ELSE LET d == Head(directions) IN
         ScanDirectionsUnshift(g, piece, position, Tail(directions), loop)
             \o ScanDirection(g, piece, position, d[1], d[2], loop)

RECURSIVE ScanDirections(_, _, _, _, _)
ScanDirections(g, piece, position, directions, loop) ==
    IF directions = <<>> THEN <<>>
    ELSE LET d == Head(directions) IN
         ScanDirection(g, piece, position, d[1], d[2], loop)
             \o ScanDirections(g, piece, position, Tail(directions), loop)

\* getAvaiableSquaresInDirections without line 142: the loop flag is ignored.
getAvaiableSquaresInDirectionsLoops(g, piece, directions, loop) ==
    LET found == getPosition(g, piece) IN
    IF found.out # "ok"
    THEN [out |-> found.out, squares |-> <<>>]
    ELSE [out |-> "ok", squares |-> ScanDirections(g, piece, found.pos, directions, TRUE)]

getAvaiableSquaresInDirections(g, piece, directions, loop) ==
    LET found == getPosition(g, piece) IN
    IF found.out # "ok"
    THEN [out |-> found.out, squares |-> <<>>]
    ELSE [out |-> "ok", squares |-> ScanDirections(g, piece, found.pos, directions, loop)]

RookDirections == << <<1, 0>>, <<-1, 0>>, <<0, 1>>, <<0, -1>> >>
BishopDirections == << <<1, 1>>, <<-1, 1>>, <<1, -1>>, <<-1, -1>> >>
QueenDirections ==
    << <<1, 0>>, <<-1, 0>>, <<0, 1>>, <<0, -1>>, <<1, 1>>, <<-1, 1>>, <<1, -1>>, <<-1, -1>> >>
KingDirections ==
    << <<1, 0>>, <<-1, 0>>, <<0, 1>>, <<0, -1>>, <<1, 1>>, <<-1, 1>>, <<1, -1>>, <<-1, -1>> >>
KnightDirections ==
    << <<1, 2>>, <<1, -2>>, <<-1, 2>>, <<-1, -2>>, <<2, 1>>, <<2, -1>>, <<-2, 1>>, <<-2, -1>> >>

\* Pawn.availableSquares: every getPieceAt is made without a range check, so a
\* square whose row is off the board throws, and one whose column is off the
\* board reads as undefined (or as whatever was stored at that index).
PawnDirection(piece) == IF ColorOf(piece) = "white" THEN -1 ELSE 1

PawnOnStartingRow(piece, position) ==
    \/ ColorOf(piece) = "white" /\ position.row = WHITE_PAWN_ROW
    \/ ColorOf(piece) = "black" /\ position.row = BLACK_PAWN_ROW

\* The forward part without the starting-row test of line 173.
PawnForwardAnyRow(g, piece, position) ==
    LET direction == PawnDirection(piece)
        one == addOffset(position, direction, 0)
        two == addOffset(position, direction * 2, 0)
    IN IF getPieceAt(g, one).cell = NULL
       THEN <<one>> \o (IF getPieceAt(g, two).cell = NULL THEN <<two>> ELSE <<>>)
       ELSE <<>>

\* The forward part (lines 166-180), for a pawn whose one-step square's row is on the board.
PawnForward(g, piece, position) ==
    LET direction == PawnDirection(piece)
        one == addOffset(position, direction, 0)
        two == addOffset(position, direction * 2, 0)
    IN IF getPieceAt(g, one).cell = NULL
       THEN <<one>> \o
            (IF PawnOnStartingRow(piece, position) /\ getPieceAt(g, two).cell = NULL
             THEN <<two>> ELSE <<>>)
       ELSE <<>>

\* One diagonal (lines 184-188 and 190-194).
PawnDiagonal(g, piece, position, columnOffset) ==
    LET diagonal == addOffset(position, PawnDirection(piece), columnOffset)
        otherPiece == getPieceAt(g, diagonal).cell
    IN IF IsPiece(otherPiece) /\ ColorOf(otherPiece) # ColorOf(piece)
       THEN <<diagonal>> ELSE <<>>

PawnAvailableSquares(g, piece) ==
    LET found == getPosition(g, piece)
        position == found.pos
        direction == PawnDirection(piece)
    IN IF found.out # "ok" THEN [out |-> found.out, squares |-> <<>>]
       ELSE IF getPieceAt(g, addOffset(position, direction, 0)).out # "ok"
       THEN [out |-> "TypeError", squares |-> <<>>]
       ELSE [out |-> "ok",
             squares |-> PawnForward(g, piece, position)
                            \o PawnDiagonal(g, piece, position, -1)
                            \o PawnDiagonal(g, piece, position, 1)]

\* piece.availableSquares(board), dispatched on the class of the piece.
availableSquares(g, piece) ==
    CASE TypeOf(piece) = "pawn" -> PawnAvailableSquares(g, piece)
      [] TypeOf(piece) = "rook" -> getAvaiableSquaresInDirections(g, piece, RookDirections, TRUE)
      [] TypeOf(piece) = "knight" -> getAvaiableSquaresInDirections(g, piece, KnightDirections, FALSE)
      [] TypeOf(piece) = "bishop" -> getAvaiableSquaresInDirections(g, piece, BishopDirections, TRUE)
      [] TypeOf(piece) = "queen" -> getAvaiableSquaresInDirections(g, piece, QueenDirections, TRUE)
      [] TypeOf(piece) = "king" -> getAvaiableSquaresInDirections(g, piece, KingDirections, FALSE)

----------------------------------------------------------------------------
(* The operations of the public interface, as calls made by a caller.      *)

\* An argument of type Position | string.
PosArg(p) == [isString |-> FALSE, s |-> <<>>, p |-> p]
StrArg(s) == [isString |-> TRUE, s |-> s, p |-> Position(0, 0)]
NoArg == PosArg(Position(0, 0))

\* if (typeof position === 'string') position = Position.fromString(position)
Resolve(arg) == IF arg.isString THEN fromString(arg.s) ELSE arg.p

NoSquares == <<>>
NoPos == Position(-1, -1)

Call(op, piece, arg, out, cell, pos, squares) ==
    [op |-> op, piece |-> piece, arg |-> arg, out |-> out,
     cell |-> cell, pos |-> pos, squares |-> squares]

\* The entity created by the current initialize() for a slot of the layout.
Entity(e, slot) == PiecesPerInit * (e - 1) + slot

\* Pieces a caller passes: white pawn a2, black knight b8 and white queen d1 of
\* the current board, and the white pawn a2 of the board before the last
\* initialize() (a stale reference).
InputSlots == {2, 19, 24}
StaleInputs == IF epoch > 1 THEN {Entity(epoch - 1, 2)} ELSE {}
PieceInputs == {Entity(epoch, s) : s \in InputSlots} \cup StaleInputs

\* Destinations a caller passes: on the board (empty, and occupied), with a
\* column or a row outside [0,7], and notation strings, well-formed and not.
PositionInputs ==
    {Position(4, 4), Position(0, 1),
     Position(3, 7 + OffBy), Position(3, 0 - OffBy), Position(0 - OffBy, 3)}
StringInputs ==
    {<<"b", "8">>, <<"i", "3">>, <<"a", "9">>, <<"e">>}
ArgInputs == {PosArg(p) : p \in PositionInputs} \cup {StrArg(s) : s \in StringInputs}

Init ==
    /\ epoch = 1
    /\ grid = initialize(1)
    /\ pre = initialize(1)
    /\ last = Call("initialize", 0, NoArg, "ok", NULL, NoPos, NoSquares)
    /\ moves = 0

\* Variant: the pieces are placed on the grid as it is, without a new grid.
InitializeKeepsGrid ==
    /\ epoch <= MaxInits
    /\ epoch' = epoch + 1
    /\ grid' = [r \in BoardIdx |->
                  IF r \in {BLACK_PIECE_ROW, BLACK_PAWN_ROW, WHITE_PAWN_ROW, WHITE_PIECE_ROW}
                  THEN initialize(epoch + 1)[r]
                  ELSE grid[r]]
    /\ pre' = grid
    /\ last' = Call("initialize", 0, NoArg, "ok", NULL, NoPos, NoSquares)
    /\ UNCHANGED moves

\* board.initialize(): a new grid and 32 new entities.
Initialize ==
    /\ epoch <= MaxInits
    /\ epoch' = epoch + 1
    /\ grid' = initialize(epoch + 1)
    /\ pre' = grid
    /\ last' = Call("initialize", 0, NoArg, "ok", NULL, NoPos, NoSquares)
    /\ UNCHANGED moves

\* board.movePiece(piece, position), any piece and any destination.
MovePiece(piece, arg) ==
    /\ moves < MaxMoves
    /\ LET r == movePiece(grid, piece, Resolve(arg)) IN
        /\ grid' = r.grid
        /\ last' = Call("movePiece", piece, arg, r.out, NULL, NoPos, NoSquares)
    /\ pre' = grid
    /\ moves' = moves + 1
    /\ UNCHANGED epoch

\* Variant: the occupant returned is taken off the grid.
GetPieceAtTakes(arg) ==
    /\ LET r == getPieceAt(grid, Resolve(arg)) IN
        /\ last' = Call("getPieceAt", 0, arg, r.out, r.cell, NoPos, NoSquares)
        /\ grid' = IF r.out = "ok" /\ IsPiece(r.cell)
                   THEN [grid EXCEPT ![Resolve(arg).row][Resolve(arg).column] = NULL]
                   ELSE grid
    /\ pre' = grid
    /\ UNCHANGED <<epoch, moves>>

\* board.getPieceAt(position)
GetPieceAt(arg) ==
    /\ LET r == getPieceAt(grid, Resolve(arg)) IN
        last' = Call("getPieceAt", 0, arg, r.out, r.cell, NoPos, NoSquares)
    /\ pre' = grid
    /\ UNCHANGED <<grid, epoch, moves>>

\* piece.getPosition(board)
GetPosition(piece) ==
    /\ LET r == getPosition(grid, piece) IN
        last' = Call("getPosition", piece, NoArg, r.out, NULL, r.pos, NoSquares)
    /\ pre' = grid
    /\ UNCHANGED <<grid, epoch, moves>>

\* piece.availableSquares(board)
AvailableSquares(piece) ==
    /\ LET r == availableSquares(grid, piece) IN
        last' = Call("availableSquares", piece, NoArg, r.out, NULL, NoPos, r.squares)
    /\ pre' = grid
    /\ UNCHANGED <<grid, epoch, moves>>

Next ==
    \/ Initialize
    \/ \E piece \in PieceInputs, arg \in ArgInputs : MovePiece(piece, arg)
    \/ \E arg \in ArgInputs : GetPieceAt(arg)
    \/ \E piece \in PieceInputs : GetPosition(piece)
    \/ \E piece \in PieceInputs : AvailableSquares(piece)

Spec == Init /\ [][Next]_vars

----------------------------------------------------------------------------
(* Claims about the public interface, checked under Spec.                  *)

\* The cells of the 8x8 grid that hold a piece.
CellsOf(g, piece) == {sq \in BoardIdx \X BoardIdx : g[sq[1]][sq[2]] = piece}

\* A movePiece call that completed: the destination cell of the 8x8 grid holds
\* the piece and the origin cell (when it is another cell) is empty.
MoveCompleted ==
    LET dest == Resolve(last.arg)
        from == getPosition(pre, last.piece)
    IN /\ last.out = "ok"
       /\ from.out = "ok"
       /\ isOnBoard(dest)
       /\ grid[dest.row][dest.column] = last.piece
       /\ from.pos # dest => grid[from.pos.row][from.pos.column] = NULL

\* C1: movePiece(piece, destination) is all-or-nothing for every piece and
\* every destination: after the call either the origin cell is cleared and the
\* destination cell holds the piece, or the call failed and the grid is the
\* grid before the call.
C1_MoveAllOrNothing ==
    last.op = "movePiece" =>
        \/ MoveCompleted
        \/ last.out # "ok" /\ grid = pre

\* C4: after initialize() and after any sequence of movePiece calls, legal or
\* not, succeeding or failing, every piece entity occupies at most one cell of
\* the 8x8 grid.
C4_AtMostOneCell ==
    \A piece \in EntitiesOf(epoch) : Cardinality(CellsOf(grid, piece)) <= 1

\* C4 witness: a second movePiece call has relocated a piece that an earlier
\* call had moved, and a call has failed after clearing the origin.
C4_Witness ==
    /\ moves >= 2
    /\ last.op = "movePiece"
    /\ \/ /\ last.out = "ok"
          /\ Cardinality(CellsOf(grid, last.piece)) = 1
          /\ CellsOf(grid, last.piece) # CellsOf(pre, last.piece)
          /\ CellsOf(pre, last.piece) # CellsOf(initialize(epoch), last.piece)
       \/ /\ last.out = "TypeError"
          /\ CellsOf(grid, last.piece) = {}
          /\ CellsOf(pre, last.piece) # {}

\* C5: getPieceAt(position) fails for every position whose row or column is
\* outside [0,7], and for every position inside the grid it returns the
\* occupant or none.
C5_GetPieceAtRangeChecked ==
    (last.op = "getPieceAt" /\ ~last.arg.isString) =>
        IF isOnBoard(last.arg.p)
        THEN last.out = "ok" /\ last.cell = pre[last.arg.p.row][last.arg.p.column]
        ELSE last.out # "ok"

\* A notation string whose first character is not one of 'a'..'h' or whose
\* second character is not one of '1'..'8'.
Malformed(s) ==
    \/ CharAt(s, 0) \notin {"a", "b", "c", "d", "e", "f", "g", "h"}
    \/ CharAt(s, 1) \notin {"1", "2", "3", "4", "5", "6", "7", "8"}

\* C6: fromString fails for every malformed notation string, so getPieceAt and
\* movePiece called with one fail without touching the grid.
C6_MalformedNotationFails ==
    (last.op \in {"getPieceAt", "movePiece"} /\ last.arg.isString /\ Malformed(last.arg.s)) =>
        last.out # "ok" /\ grid = pre

\* C11: for a piece that is in no cell of the 8x8 grid, getPosition,
\* availableSquares and movePiece all fail with PieceNotFound, and the failing
\* movePiece leaves the grid as it was.
C11_AbsentPieceNotFound ==
    (/\ last.op \in {"getPosition", "availableSquares", "movePiece"}
     /\ CellsOf(pre, last.piece) = {}) =>
        last.out = "PieceNotFound" /\ grid = pre

\* The occupied cells of the 8x8 grid.
Occupied(g) == {sq \in BoardIdx \X BoardIdx : g[sq[1]][sq[2]] # NULL}
OccupiedBy(g, color) == {sq \in Occupied(g) : ColorOf(g[sq[1]][sq[2]]) = color}

\* What a cell shows: nothing, or the type and the colour of its piece.
Content(g, row, column) ==
    IF g[row][column] = NULL THEN <<>>
    ELSE <<TypeOf(g[row][column]), ColorOf(g[row][column])>>

BackRank == <<"rook", "knight", "bishop", "queen", "king", "bishop", "knight", "rook">>

\* The starting layout, cell by cell.
StartingContent(row, column) ==
    CASE row = 0 -> <<BackRank[column + 1], "black">>
      [] row = 1 -> <<"pawn", "black">>
      [] row = 6 -> <<"pawn", "white">>
      [] row = 7 -> <<BackRank[column + 1], "white">>
      [] OTHER -> <<>>

\* C12: after initialize() exactly 32 cells are occupied, 16 per colour; row 0
\* is black's back rank and row 7 white's, in the order rook, knight, bishop,
\* queen, king, bishop, knight, rook; row 1 holds black pawns and row 6 white
\* pawns; rows 2 to 5 are empty; the 32 occupants are 32 distinct entities.
C12_StartingLayout ==
    last.op = "initialize" =>
        /\ Cardinality(Occupied(grid)) = 32
        /\ Cardinality(OccupiedBy(grid, "black")) = 16
        /\ Cardinality(OccupiedBy(grid, "white")) = 16
        /\ \A r \in BoardIdx, c \in BoardIdx : Content(grid, r, c) = StartingContent(r, c)
        /\ \A a \in Occupied(grid), b \in Occupied(grid) :
              a # b => grid[a[1]][a[2]] # grid[b[1]][b[2]]

\* C12 witness: initialize() has been called on a constructed board.
C12_Witness ==
    /\ last.op = "initialize"
    /\ epoch = 2
    /\ Cardinality(Occupied(grid)) = 32

\* C13: initialize() called in any state (after moves and captures, or right
\* after another initialize()) leaves in every cell the type and colour the
\* cell had after construction, and nothing outside the 8 columns.
C13_InitializeResets ==
    last.op = "initialize" =>
        /\ \A r \in BoardIdx, c \in BoardIdx :
              Content(grid, r, c) = Content(initialize(1), r, c)
        /\ \A r \in BoardIdx, c \in StoredIdx \ BoardIdx : grid[r][c] = UNDEF

\* C13 witness: initialize() has been called on a board on which a piece had
\* been captured and a square of the middle rows was occupied.
C13_Witness ==
    /\ last.op = "initialize"
    /\ epoch >= 2
    /\ Cardinality(Occupied(pre)) < 32
    /\ \E c \in BoardIdx : pre[4][c] # NULL

----------------------------------------------------------------------------
(* The notation conversions of Position, applied to strings and positions  *)
(* a caller can pass, and to each other's results.                         *)

\* Strings drawn: every first character of 'a'..'i' with every second
\* character of '0'..'9' and 'x'; the 64 valid strings are among them.
FirstChars == {"a", "b", "c", "d", "e", "f", "g", "h", "i"}
SecondChars == {Digits[i] : i \in 1..Len(Digits)} \cup {"x"}
StringsDrawn == {<<x, y>> : x \in FirstChars, y \in SecondChars}

\* Positions drawn: the 64 on the board and those next to it.
PositionsDrawn == {Position(r, c) : r \in StoredIdx, c \in StoredIdx}

Conversion(op, arg, pos, str) == [op |-> op, arg |-> arg, pos |-> pos, str |-> str]

NotationInit ==
    /\ epoch = 1
    /\ grid = initialize(1)
    /\ pre = initialize(1)
    /\ moves = 0
    /\ last \in {Conversion("given", StrArg(s), NoPos, <<>>) : s \in StringsDrawn}
               \cup {Conversion("given", PosArg(p), NoPos, <<>>) : p \in PositionsDrawn}

\* Position.fromString(s), of the string given or of the last toString() result.
PositionFromString ==
    /\ \/ last.op = "given" /\ last.arg.isString
       \/ last.op = "toString"
    /\ LET s == IF last.op = "given" THEN last.arg.s ELSE last.str IN
        last' = [last EXCEPT !.op = "fromString", !.pos = fromString(s)]
    /\ UNCHANGED <<grid, epoch, pre, moves>>

\* position.toString(), of the position given or of the last fromString() result.
PositionToString ==
    /\ \/ last.op = "given" /\ ~last.arg.isString
       \/ last.op = "fromString"
    /\ LET p == IF last.op = "given" THEN last.arg.p ELSE last.pos IN
        last' = [last EXCEPT !.op = "toString", !.str = toString(p)]
    /\ UNCHANGED <<grid, epoch, pre, moves>>

NotationNext == PositionFromString \/ PositionToString

SpecNotation == NotationInit /\ [][NotationNext]_vars

Files == <<"a", "b", "c", "d", "e", "f", "g", "h">>
Ranks == <<"1", "2", "3", "4", "5", "6", "7", "8">>
FileIndex(ch) == CHOOSE i \in 0..7 : Files[i + 1] = ch
RankOf(ch) == CHOOSE n \in 1..8 : Ranks[n] = ch

\* C14: for each of the 64 valid strings s, fromString(s) is on the board with
\* column = index of the letter in 'a'..'h' and row = 8 - rank ("a8" is (0,0),
\* "h1" is (7,7)) and toString(fromString(s)) = s; and for every position p
\* on the board, fromString(toString(p)) = p.
C14_NotationRoundTrip ==
    /\ (last.op = "fromString" /\ last.arg.isString /\ ~Malformed(last.arg.s)) =>
          /\ isOnBoard(last.pos)
          /\ last.pos.column = FileIndex(last.arg.s[1])
          /\ last.pos.row = 8 - RankOf(last.arg.s[2])
          /\ last.arg.s = <<"a", "8">> => last.pos = Position(0, 0)
          /\ last.arg.s = <<"h", "1">> => last.pos = Position(7, 7)
    /\ (last.op = "toString" /\ last.arg.isString /\ ~Malformed(last.arg.s)) =>
          last.str = last.arg.s
    /\ (last.op = "fromString" /\ ~last.arg.isString /\ isOnBoard(last.arg.p)) =>
          last.pos = last.arg.p

\* C14 witness: "h1" has been parsed to (7,7) and printed back, or (2,5) has
\* been printed as "f6" and parsed back.
C14_Witness ==
    \/ /\ last.op = "toString"
       /\ last.arg = StrArg(<<"h", "1">>)
       /\ last.pos = Position(7, 7)
       /\ last.str = <<"h", "1">>
    \/ /\ last.op = "fromString"
       /\ last.arg = PosArg(Position(2, 5))
       /\ last.str = <<"f", "6">>
       /\ last.pos = Position(2, 5)

----------------------------------------------------------------------------
(* The query-then-command protocol: a caller selects a piece of the grid,  *)
(* asks it for its available squares and moves it to one of them.  Any     *)
(* piece, any colour, no turn order.                                       *)

\* The pieces the caller selects, as slots of the starting layout: white pawn
\* a2, white knight b1, black pawn h7 and white rook a1.
MoverSlots == {2, 20, 15, 18}
Movers == {Entity(epoch, s) : s \in MoverSlots}

\* The pieces found by iterating the grid.
OnGrid(g) == {g[r][c] : r \in BoardIdx, c \in BoardIdx} \ {NULL}

\* The squares the selected piece offers: none when availableSquares throws.
Offered(g, piece) ==
    LET squares == availableSquares(g, piece) IN
    IF squares.out = "ok" THEN {squares.squares[i] : i \in 1..Len(squares.squares)} ELSE {}

Play(piece) ==
    /\ moves < MaxPlies
    /\ \E destination \in Offered(grid, piece) :
        LET r == movePiece(grid, piece, destination) IN
        /\ grid' = r.grid
        /\ last' = Call("movePiece", piece, PosArg(destination), r.out,
                        NULL, NoPos, NoSquares)
    /\ pre' = grid
    /\ moves' = moves + 1
    /\ UNCHANGED epoch

PlayNext == \E piece \in Movers : Play(piece)

SpecPlay == Init /\ [][PlayNext]_vars

----------------------------------------------------------------------------
(* Claims about the protocol, checked under SpecPlay.                      *)

\* movePiece(p, B) from grid g, with p at A, leaves p in cell B and cell A empty.
MoveCommits(g, piece, A, B) ==
    LET r == movePiece(g, piece, B) IN
    /\ r.out = "ok"
    /\ getPieceAt(r.grid, B).out = "ok" /\ getPieceAt(r.grid, B).cell = piece
    /\ getPieceAt(r.grid, A).out = "ok" /\ getPieceAt(r.grid, A).cell = NULL

\* C2: in every state reachable from the initial layout, for every piece p on
\* the grid at A and every B in p.availableSquares(board): after
\* movePiece(p, B), getPieceAt(B) is p and getPieceAt(A) is empty.
C2_MoveCommit ==
    \A piece \in OnGrid(grid) :
        LET A == getPosition(grid, piece).pos IN
        \A B \in Offered(grid, piece) : MoveCommits(grid, piece, A, B)

\* C2 witness: a move to an offered square has been made, as a capture, and
\* the moved piece is in the destination cell with its origin cell empty.
C2_Witness ==
    /\ last.op = "movePiece"
    /\ last.out = "ok"
    /\ last.arg.p \in Offered(pre, last.piece)
    /\ IsPiece(pre[last.arg.p.row][last.arg.p.column])
    /\ grid[last.arg.p.row][last.arg.p.column] = last.piece
    /\ CellsOf(grid, last.piece) = {<<last.arg.p.row, last.arg.p.column>>}

\* The forward destinations of a pawn: those in its own column.
ForwardSquares(g, piece) ==
    LET squares == availableSquares(g, piece).squares IN
    {i \in 1..Len(squares) : squares[i].column = getPosition(g, piece).pos.column}

\* C3: in every state reachable by moves to offered squares, availableSquares
\* of every piece on the grid returns normally, every returned position is on
\* the board, and a pawn that is not on its starting row yields at most one
\* forward destination.
C3_AvailableSquaresTotal ==
    \A piece \in OnGrid(grid) :
        LET squares == availableSquares(grid, piece) IN
        /\ squares.out = "ok"
        /\ \A i \in 1..Len(squares.squares) : isOnBoard(squares.squares[i])
        /\ (TypeOf(piece) = "pawn" /\ ~PawnOnStartingRow(piece, getPosition(grid, piece).pos))
               => Cardinality(ForwardSquares(grid, piece)) <= 1

\* C15: in every state reachable by moves to offered squares, the squares
\* availableSquares returns for a piece on the grid include neither the
\* piece's own square nor a square occupied by a piece of its colour; and a
\* piece that a move removes from the grid has the colour opposite to the
\* mover's.
C15_NoOwnColourDestination ==
    /\ \A piece \in OnGrid(grid) :
          \A B \in Offered(grid, piece) :
              /\ <<B.row, B.column>> \notin CellsOf(grid, piece)
              /\ isOnBoard(B) =>
                    \/ grid[B.row][B.column] = NULL
                    \/ ColorOf(grid[B.row][B.column]) # ColorOf(piece)
    /\ last.op = "movePiece" =>
          \A removed \in OnGrid(pre) \ OnGrid(grid) :
              ColorOf(removed) # ColorOf(last.piece)

\* C15 witness: a move has removed a piece from the grid, and the mover, now
\* next to pieces of both colours, still has squares to go to.
C15_Witness ==
    /\ last.op = "movePiece"
    /\ last.out = "ok"
    /\ OnGrid(pre) \ OnGrid(grid) # {}
    /\ Offered(grid, last.piece) # {}
    /\ TypeOf(last.piece) = "rook"

\* The kings of the current board.
BlackKing == Entity(epoch, 25)
WhiteKing == Entity(epoch, 26)

\* A piece that has an offered square and is moved there by movePiece.
CanMove(g, piece) ==
    \E B \in Offered(g, piece) : movePiece(g, piece, B).out = "ok"
SomeCanMove(g, color) ==
    \E piece \in OnGrid(g) : ColorOf(piece) = color /\ CanMove(g, piece)

\* C20: no turn order and no king safety: in every state reached by moves to
\* offered squares, movePiece accepts every offered square of a selected
\* piece, a king's square like any other; after a move by one colour a piece
\* of that colour can move again; and once a king is off the grid, pieces of
\* both colours can still move.
C20_NoTurnOrderNoKingSafety ==
    /\ \A piece \in Movers :
          \A B \in Offered(grid, piece) :
              LET r == movePiece(grid, piece, B) IN
              r.out = "ok" /\ r.grid[B.row][B.column] = piece
    /\ (last.op = "movePiece" /\ last.out = "ok") =>
          SomeCanMove(grid, ColorOf(last.piece))
    /\ (BlackKing \notin OnGrid(grid) \/ WhiteKing \notin OnGrid(grid)) =>
          SomeCanMove(grid, "white") /\ SomeCanMove(grid, "black")

\* C20 witness: white has moved four times in a row (every black piece was
\* still on its starting cell) and has captured the black king; then a black
\* piece has moved, and a white piece still has a square to go to.
C20_Witness ==
    /\ last.op = "movePiece"
    /\ last.out = "ok"
    /\ moves >= 5
    /\ ColorOf(last.piece) = "black"
    /\ BlackKing \notin OnGrid(pre)
    /\ \A piece \in OnGrid(pre) :
          ColorOf(piece) = "black" => CellsOf(pre, piece) = CellsOf(initialize(epoch), piece)
    /\ CellsOf(grid, last.piece) # CellsOf(pre, last.piece)
    /\ \E piece \in Movers : ColorOf(piece) = "white" /\ Offered(grid, piece) # {}

----------------------------------------------------------------------------
(* Move generation as a function of the board: boards of a few pieces are  *)
(* drawn, and availableSquares is applied to the pieces on them.           *)

Put(g, piece, sq) ==
    IF isOnBoard(sq) THEN [g EXCEPT ![sq.row][sq.column] = piece] ELSE g

\* The offsets at which a second piece is put, seen from the first: the 8
\* neighbours and the 8 knight jumps.
NearOffsets ==
    ({<<dr, dc>> : dr \in -1..1, dc \in -1..1} \ {<<0, 0>>})
        \cup {<<1, 2>>, <<1, -2>>, <<-1, 2>>, <<-1, -2>>, <<2, 1>>, <<2, -1>>, <<-2, 1>>, <<-2, -1>>}

\* First pieces: white rook, black bishop, white queen, black king, white
\* knight, white pawn, black pawn.  Second pieces: a white and a black pawn.
\* Third piece (one step behind the second): a black knight, or none.
FirstSlots == {18, 21, 24, 25, 20, 2, 1}
SecondSlots == {4, 3}
ThirdSlots == {19}

ScanBoard(first, sq, second, o, k, third) ==
    LET near == addOffset(sq, k * o[1], k * o[2])
        far == addOffset(sq, (k + 1) * o[1], (k + 1) * o[2])
        g2 == Put(Put(EmptyGrid, Entity(1, first), sq), Entity(1, second), near)
    IN IF third \in ThirdSlots THEN Put(g2, Entity(1, third), far) ELSE g2

ScanBoards ==
    {ScanBoard(first, Position(r, c), second, o, k, third) :
        first \in FirstSlots, r \in BoardIdx, c \in BoardIdx, second \in SecondSlots,
        o \in NearOffsets, k \in 1..MaxDist, third \in ThirdSlots \cup {NULL}}

ScanInit ==
    /\ grid \in ScanBoards
    /\ pre = grid
    /\ epoch = 1
    /\ moves = 0
    /\ last = Call("setup", 0, NoArg, "ok", NULL, NoPos, NoSquares)

\* One application to a piece of each board drawn.
ScanNext == last.op = "setup" /\ \E piece \in OnGrid(grid) : AvailableSquares(piece)

SpecScan == ScanInit /\ [][ScanNext]_vars

----------------------------------------------------------------------------
(* Claims about move generation, checked under SpecScan.                   *)

\* What the claims speak of: the piece availableSquares was applied to, the
\* square of the 8x8 grid it stands on, the squares the call listed (none for
\* a call that throws), and the occupancy and colour of the squares.
Queried(types) ==
    /\ last.op = "availableSquares"
    /\ TypeOf(last.piece) \in types
    /\ CellsOf(grid, last.piece) # {}
SquareOf(g, piece) ==
    CHOOSE sq \in {Position(r, c) : r \in BoardIdx, c \in BoardIdx} :
        g[sq.row][sq.column] = piece
Listed == IF last.out = "ok" THEN {last.squares[i] : i \in 1..Len(last.squares)} ELSE {}
Occupant(g, sq) == g[sq.row][sq.column]
IsEmpty(g, sq) == isOnBoard(sq) /\ Occupant(g, sq) = NULL
IsOccupied(g, sq) == isOnBoard(sq) /\ Occupant(g, sq) # NULL
HoldsEnemy(g, sq, piece) == IsOccupied(g, sq) /\ ColorOf(Occupant(g, sq)) # ColorOf(piece)

Orthogonals == {<<1, 0>>, <<-1, 0>>, <<0, 1>>, <<0, -1>>}
Diagonals == {<<1, 1>>, <<-1, 1>>, <<1, -1>>, <<-1, -1>>}
KnightJumps == {<<1, 2>>, <<1, -2>>, <<-1, 2>>, <<-1, -2>>, <<2, 1>>, <<2, -1>>, <<-2, 1>>, <<-2, -1>>}
SlidingDirections(type) ==
    CASE type = "rook" -> Orthogonals
      [] type = "bishop" -> Diagonals
      [] type = "queen" -> Orthogonals \cup Diagonals

\* The square k steps from A in direction d, and the squares of that ray.
Step(A, d, k) == Position(A.row + k * d[1], A.column + k * d[2])
RaySquares(A, d) == {Step(A, d, k) : k \in 1..8}

\* The first step in direction d at which the ray is off the board or occupied.
FirstStop(g, A, d) ==
    CHOOSE n \in 1..8 :
        /\ ~IsEmpty(g, Step(A, d, n))
        /\ \A k \in 1..(n - 1) : IsEmpty(g, Step(A, d, k))

\* The destinations the claim gives direction d: the empty squares before the
\* first stop, and the first stop when it holds a piece of the other colour.
SlidingExpected(g, piece, A, d) ==
    LET n == FirstStop(g, A, d) IN
    {Step(A, d, k) : k \in 1..(n - 1)}
        \cup (IF HoldsEnemy(g, Step(A, d, n), piece) THEN {Step(A, d, n)} ELSE {})

\* C7: for a rook, bishop or queen on any board and each of its directions,
\* the destinations in that direction are exactly the empty squares up to the
\* first occupied square or the board edge, plus that first occupied square
\* iff its occupant has the opposite colour; nothing else is a destination.
C7_SlidingDestinations ==
    Queried({"rook", "bishop", "queen"}) =>
        LET A == SquareOf(grid, last.piece)
            dirs == SlidingDirections(TypeOf(last.piece))
        IN /\ last.out = "ok"
           /\ \A d \in dirs : Listed \cap RaySquares(A, d) = SlidingExpected(grid, last.piece, A, d)
           /\ Listed \subseteq UNION {RaySquares(A, d) : d \in dirs}

\* C7 witness: availableSquares was applied to a rook with a piece of its own
\* colour 3 squares ahead, or to a bishop with a piece of the other colour 2
\* squares away diagonally and a further piece behind it, and listed exactly
\* the 2 squares of that direction.
C7_Witness ==
    /\ Queried({"rook", "bishop"})
    /\ LET A == SquareOf(grid, last.piece) IN
       \/ /\ TypeOf(last.piece) = "rook"
          /\ \E d \in Orthogonals :
              /\ IsEmpty(grid, Step(A, d, 1)) /\ IsEmpty(grid, Step(A, d, 2))
              /\ IsOccupied(grid, Step(A, d, 3))
              /\ ~HoldsEnemy(grid, Step(A, d, 3), last.piece)
              /\ Listed \cap RaySquares(A, d) = {Step(A, d, 1), Step(A, d, 2)}
       \/ /\ TypeOf(last.piece) = "bishop"
          /\ \E d \in Diagonals :
              /\ IsEmpty(grid, Step(A, d, 1))
              /\ HoldsEnemy(grid, Step(A, d, 2), last.piece)
              /\ IsOccupied(grid, Step(A, d, 3))
              /\ Listed \cap RaySquares(A, d) = {Step(A, d, 1), Step(A, d, 2)}

Forward(piece) == IF ColorOf(piece) = "white" THEN -1 ELSE 1
OnStartingRow(piece, A) ==
    (ColorOf(piece) = "white" /\ A.row = 6) \/ (ColorOf(piece) = "black" /\ A.row = 1)

\* C8: the square one step forward of a pawn is a destination iff it is empty;
\* the square two steps forward is a destination iff the pawn is on its
\* starting row and both squares are empty; no other square of the pawn's
\* column is a destination, and none that is occupied.
C8_PawnForward ==
    Queried({"pawn"}) =>
        LET A == SquareOf(grid, last.piece)
            one == Step(A, <<Forward(last.piece), 0>>, 1)
            two == Step(A, <<Forward(last.piece), 0>>, 2)
        IN /\ one \in Listed <=> IsEmpty(grid, one)
           /\ two \in Listed <=>
                 (OnStartingRow(last.piece, A) /\ IsEmpty(grid, one) /\ IsEmpty(grid, two))
           /\ \A sq \in Listed :
                 sq.column = A.column => (sq \in {one, two} /\ IsEmpty(grid, sq))

\* C8 witness: availableSquares was applied to a pawn on its starting row with
\* both squares ahead empty and listed both, or to a pawn on its starting row
\* whose one-step square is occupied and two-step square empty and listed neither.
C8_Witness ==
    /\ Queried({"pawn"})
    /\ last.out = "ok"
    /\ LET A == SquareOf(grid, last.piece)
           one == Step(A, <<Forward(last.piece), 0>>, 1)
           two == Step(A, <<Forward(last.piece), 0>>, 2)
       IN /\ OnStartingRow(last.piece, A)
          /\ \/ IsEmpty(grid, one) /\ IsEmpty(grid, two) /\ {one, two} \subseteq Listed
             \/ IsOccupied(grid, one) /\ IsEmpty(grid, two) /\ Listed \cap {one, two} = {}

\* C9: each of the two forward-diagonal squares of a pawn is a destination iff
\* it is on the board and holds a piece of the opposite colour, and no other
\* square outside the pawn's column is a destination.
C9_PawnCaptures ==
    Queried({"pawn"}) =>
        LET A == SquareOf(grid, last.piece)
            diagonals == {Step(A, <<Forward(last.piece), -1>>, 1),
                          Step(A, <<Forward(last.piece), 1>>, 1)}
        IN /\ \A sq \in diagonals : sq \in Listed <=> HoldsEnemy(grid, sq, last.piece)
           /\ \A sq \in Listed : sq.column # A.column => sq \in diagonals

StepOffsets(type) == IF type = "knight" THEN KnightJumps ELSE Orthogonals \cup Diagonals

\* C10: for a king and a knight, availableSquares is exactly the set of squares
\* one offset away that are on the board and empty or held by the other
\* colour, with at most one square per offset.
C10_KingKnightDestinations ==
    Queried({"king", "knight"}) =>
        LET A == SquareOf(grid, last.piece)
            targets == {Step(A, o, 1) : o \in StepOffsets(TypeOf(last.piece))}
        IN /\ last.out = "ok"
           /\ Listed = {sq \in targets : IsEmpty(grid, sq) \/ HoldsEnemy(grid, sq, last.piece)}
           /\ Len(last.squares) = Cardinality(Listed)

\* C10 witness: availableSquares was applied to a knight that lists a target
\* with a piece standing on the way to it, or to a king next to a piece of its
\* own colour, listing neither that square nor the empty square behind it.
C10_Witness ==
    /\ Queried({"king", "knight"})
    /\ last.out = "ok"
    /\ LET A == SquareOf(grid, last.piece) IN
       \/ /\ TypeOf(last.piece) = "knight"
          /\ \E o \in KnightJumps :
              /\ Step(A, o, 1) \in Listed
              /\ \E n \in Orthogonals \cup Diagonals :
                  /\ IsOccupied(grid, Step(A, n, 1))
                  /\ (n[1] # 0 => n[1] * o[1] > 0) /\ (n[2] # 0 => n[2] * o[2] > 0)
       \/ /\ TypeOf(last.piece) = "king"
          /\ \E o \in Orthogonals \cup Diagonals :
              /\ IsOccupied(grid, Step(A, o, 1))
              /\ ~HoldsEnemy(grid, Step(A, o, 1), last.piece)
              /\ IsEmpty(grid, Step(A, o, 2))
              /\ Step(A, o, 1) \notin Listed /\ Step(A, o, 2) \notin Listed
              /\ Listed # {}

\* The direction list the piece's availableSquares passes to the scan.
DirectionsOf(type) ==
    CASE type = "rook" -> RookDirections
      [] type = "bishop" -> BishopDirections
      [] type = "queen" -> QueenDirections
      [] type = "king" -> KingDirections
      [] type = "knight" -> KnightDirections

\* Where a square lies seen from A: the index of its direction in the list and
\* its distance in steps.
OnRay(A, d, sq) == \E k \in 1..7 : Step(A, d, k) = sq
DirectionIndex(A, directions, sq) ==
    CHOOSE j \in 1..Len(directions) : OnRay(A, directions[j], sq)
Distance(A, d, sq) == CHOOSE k \in 1..7 : Step(A, d, k) = sq

\* C19: the list of a rook, bishop, queen, king or knight is ordered by the
\* index of the direction in the piece's direction list and, within a
\* direction, by increasing distance (each square comes strictly before the
\* next one in that order, so no square is listed twice), and asking again on
\* the same board gives the same list; a
\* knight at (0,0) whose two targets are not held by its own colour yields
\* exactly <<(1,2), (2,1)>>.
C19_ScanOrder ==
    (Queried({"rook", "bishop", "queen", "king", "knight"}) /\ last.out = "ok") =>
        LET A == SquareOf(grid, last.piece)
            directions == DirectionsOf(TypeOf(last.piece))
            squares == last.squares
        IN /\ \A i \in 1..Len(squares) :
                 \E j \in 1..Len(directions) : OnRay(A, directions[j], squares[i])
           /\ \A i \in 1..(Len(squares) - 1) :
                 LET di == DirectionIndex(A, directions, squares[i])
                     dj == DirectionIndex(A, directions, squares[i + 1])
                 IN \/ di < dj
                    \/ /\ di = dj
                       /\ Distance(A, directions[di], squares[i])
                             < Distance(A, directions[dj], squares[i + 1])
           /\ squares = availableSquares(grid, last.piece).squares
           /\ (/\ TypeOf(last.piece) = "knight"
               /\ A = Position(0, 0)
               /\ ~IsOccupied(grid, Position(1, 2)) \/ HoldsEnemy(grid, Position(1, 2), last.piece)
               /\ ~IsOccupied(grid, Position(2, 1)) \/ HoldsEnemy(grid, Position(2, 1), last.piece))
                  => squares = <<Position(1, 2), Position(2, 1)>>

\* C19 witness: a knight at (0,0) with a piece of the other colour on (1,2)
\* has listed (1,2) and then (2,1); or a queen has listed squares of several
\* directions, two or more in one of them.
C19_Witness ==
    /\ last.op = "availableSquares"
    /\ last.out = "ok"
    /\ \/ /\ TypeOf(last.piece) = "knight"
          /\ grid[0][0] = last.piece
          /\ HoldsEnemy(grid, Position(1, 2), last.piece)
          /\ last.squares = <<Position(1, 2), Position(2, 1)>>
       \/ /\ TypeOf(last.piece) = "queen"
          /\ grid[3][3] = last.piece
          /\ HoldsEnemy(grid, Position(5, 3), last.piece)
          /\ Len(last.squares) > 4
          /\ last.squares[1] = Position(4, 3)
          /\ last.squares[2] = Position(5, 3)
          /\ last.squares[3] = Position(2, 3)

----------------------------------------------------------------------------
(* Frame and lookup claims about the public interface, checked under Spec. *)

\* The occupant a destination held before the last call, if the row array
\* stored one at that index.
HeldBefore(B) ==
    IF B.row \in BoardIdx /\ B.column \in StoredIdx THEN pre[B.row][B.column] ELSE NULL

\* C16: a movePiece(p, B) that returns normally, with p at A, changes no cell
\* other than A and B; it puts no new entity on the grid; the number of
\* occupied cells decreases by exactly one if B held a piece other than p and
\* is unchanged otherwise; every entity on the grid was created by the last
\* initialize().
C16_MoveFrame ==
    (last.op = "movePiece" /\ last.out = "ok") =>
        LET A == getPosition(pre, last.piece).pos
            B == Resolve(last.arg)
            captured == IsPiece(HeldBefore(B)) /\ HeldBefore(B) # last.piece
        IN /\ \A r \in BoardIdx, c \in BoardIdx :
                 (Position(r, c) # A /\ Position(r, c) # B) => grid[r][c] = pre[r][c]
           /\ OnGrid(grid) \subseteq OnGrid(pre)
           /\ OnGrid(grid) \subseteq EntitiesOf(epoch)
           /\ Cardinality(Occupied(grid)) =
                 Cardinality(Occupied(pre)) - (IF captured THEN 1 ELSE 0)

\* C17: getPieceAt, getPosition and availableSquares, returning or failing,
\* leave every cell of the grid as it was; a call after which a cell differs
\* is an initialize or a movePiece.
C17_QueriesReadOnly ==
    /\ last.op \in {"getPieceAt", "getPosition", "availableSquares"} => grid = pre
    /\ grid # pre => last.op \in {"initialize", "movePiece"}

\* C17 witness: after a move, a query has failed (availableSquares of a pawn
\* on the last row, or of a piece no longer on the grid) or getPieceAt has
\* returned a piece, and the grid is the grid before the query.
C17_Witness ==
    /\ moves >= 1
    /\ grid = pre
    /\ grid # initialize(epoch)
    /\ \/ last.op = "availableSquares" /\ last.out \in {"TypeError", "PieceNotFound"}
       \/ last.op = "getPieceAt" /\ last.out = "ok" /\ IsPiece(last.cell)

\* C18: for every piece on the grid, getPosition returns the first cell in
\* row-major order that holds this entity; it is the only cell holding it,
\* and getPieceAt of it returns the piece itself, not another piece of its
\* type and colour.
C18_GetPositionFindsEntity ==
    \A piece \in OnGrid(grid) :
        LET found == getPosition(grid, piece) IN
        /\ found.out = "ok"
        /\ isOnBoard(found.pos)
        /\ CellsOf(grid, piece) = {<<found.pos.row, found.pos.column>>}
        /\ \A sq \in CellsOf(grid, piece) :
              \/ found.pos.row < sq[1]
              \/ found.pos.row = sq[1] /\ found.pos.column <= sq[2]
        /\ getPieceAt(grid, found.pos) = [out |-> "ok", cell |-> piece]

\* C18 witness: a pawn has been moved away from its row, where pawns of its
\* colour still stand, and getPosition has returned its cell.
C18_Witness ==
    /\ last.op = "getPosition"
    /\ last.out = "ok"
    /\ TypeOf(last.piece) = "pawn"
    /\ last.pos = Position(4, 4)
    /\ grid[4][4] = last.piece
    /\ \E c \in BoardIdx :
          /\ IsPiece(grid[6][c])
          /\ TypeOf(grid[6][c]) = "pawn"
          /\ ColorOf(grid[6][c]) = ColorOf(last.piece)

====
